---- MODULE Spec2Model ----
(***************************************************************************)
(* Model of normalize_epub.py: the text helpers of EPUBNormalizer          *)
(* (is_blank_page, compute_text_hash, are_similar), the two extractors,    *)
(* deduplicate_chapters and the process/main pipeline.                     *)
(*                                                                         *)
(* A text is a sequence of one-character strings.  A chapter is the tuple  *)
(* (title, html, text) without its html, which deduplicate_chapters only   *)
(* carries along; the title is the position of the item or page (the item  *)
(* name, "Page N").  Failures inside the libraries (a malformed document,  *)
(* an unwritable directory) are left out.                                  *)
(*                                                                         *)
(* Spec      runs main on a document, or calls deduplicate_chapters of a   *)
(*           fresh EPUBNormalizer directly, and then again on its result.  *)
(* SpecBlank calls is_blank_page on a text.                                *)
(***************************************************************************)
EXTENDS Integers, Sequences, FiniteSets, TLC

\* ---------------------------------------------------------------- bounds
MaxUnits == 4        \* most items or pages of a document
MaxChapters == 3     \* longest list passed to deduplicate_chapters directly
MaxTextLen == 11     \* longest text fed to is_blank_page on its own
MaxCalls == 2        \* direct invocations of deduplicate_chapters in a row

\* ------------------------------------------------------ program constants
BlankThreshold == 10
SimilarityThreshold == 95
XhtmlType == 9

\* ------------------------------------------------------------ characters
Whitespace == {" ", "\n", "\t"}

IsSpace(c) == c \in Whitespace

lower(c) ==
  CASE c = "A" -> "a" [] c = "B" -> "b" [] c = "C" -> "c" [] c = "D" -> "d"
    [] c = "E" -> "e" [] c = "F" -> "f" [] c = "G" -> "g" [] c = "H" -> "h"
    [] c = "I" -> "i" [] c = "J" -> "j" [] OTHER -> c

Max(a, b) == IF a >= b THEN a ELSE b

\* re.sub(r'\s+', '', text)
RemoveWs(text) == SelectSeq(text, LAMBDA c : ~IsSpace(c))

RECURSIVE LStrip(_)
LStrip(text) ==
  IF text # <<>> /\ IsSpace(Head(text)) THEN LStrip(Tail(text)) ELSE text

RECURSIVE RStrip(_)
RStrip(text) ==
  IF text # <<>> /\ IsSpace(text[Len(text)])
  THEN RStrip(SubSeq(text, 1, Len(text) - 1))
  ELSE text

\* str.strip()
Strip(text) == RStrip(LStrip(text))

\* str.lower()
Lower(text) == [i \in 1..Len(text) |-> lower(text[i])]

\* re.sub(r'\s+', ' ', text): every maximal run of whitespace becomes one space
RECURSIVE CollapseWs(_)
CollapseWs(text) ==
  IF text = <<>> THEN <<>>
  ELSE IF IsSpace(Head(text))
       THEN <<" ">> \o CollapseWs(LStrip(text))
       ELSE <<Head(text)>> \o CollapseWs(Tail(text))

\* hashlib.sha256(...).hexdigest(): a digest determined by, and (collisions
\* being out of reach) determining, the bytes it is taken over
sha256(bytes) == [digest_of |-> bytes]

\* faulty variant: measures the text with its whitespace
is_blank_page_nows(text) ==
  IF Len(text) < BlankThreshold THEN TRUE
  ELSE IF Len(Strip(text)) < BlankThreshold THEN TRUE
  ELSE FALSE

\* is_blank_page: both length checks, in the order of the code
is_blank_page(text) ==
  IF Len(RemoveWs(text)) < BlankThreshold THEN TRUE
  ELSE IF Len(Strip(text)) < BlankThreshold THEN TRUE
  ELSE FALSE

\* faulty variant: the text is not lower-cased
compute_text_hash_nolower(text) == sha256(CollapseWs(Strip(text)))

\* compute_text_hash: sha256 of the lower-cased, trimmed, collapsed text
compute_text_hash(text) == sha256(CollapseWs(Strip(Lower(text))))

\* ------------------------------------------------------------- documents
\* Texts the documents are made of.
TA == <<"a", "b", "c", "d", "e", "f", "g", "h", "i", "j">>
TAws == TA \o <<"\n">>
TAup == <<"A", "B", "C", "D", "E", "F", "G", "H", "I", "J">>
TAx == TA \o <<"k">>
TD == <<"z", "y", "x", "w", "v", "u", "t", "s", "r", "q">>
TB == <<" ", " ", " ">>
TE == <<>>

PageTexts == {TA, TAws, TAx, TD, TB}
DirectTexts == PageTexts \cup {TAup, TE}

SeqsUpTo(S, n) == UNION {[1..k -> S] : k \in 0..n}

\* items of a container: content documents (type 9) and other resources
EpubItems == [type : {XhtmlType}, text : PageTexts] \cup {[type |-> 0, text |-> TE]}
PdfPages == [type : {XhtmlType}, text : PageTexts]

\* ------------------------------------------------ fixed-layout page to text
RECURSIVE SplitLines(_, _)
\* str.split('\n') with the line under construction in cur
SplitLines(text, cur) ==
  IF text = <<>> THEN <<cur>>
  ELSE IF Head(text) = "\n" THEN <<cur>> \o SplitLines(Tail(text), <<>>)
       ELSE SplitLines(Tail(text), Append(cur, Head(text)))

RECURSIVE SplitParas(_, _)
\* str.split('\n\n')
SplitParas(text, cur) ==
  IF text = <<>> THEN <<cur>>
  ELSE IF Len(text) >= 2 /\ text[1] = "\n" /\ text[2] = "\n"
       THEN <<cur>> \o SplitParas(SubSeq(text, 3, Len(text)), <<>>)
       ELSE SplitParas(Tail(text), Append(cur, Head(text)))

\* the <p> elements made of the lines (or paragraphs) that are not all whitespace
Paragraphs(parts) ==
  LET kept == SelectSeq(parts, LAMBDA l : Strip(l) # <<>>)
  IN [i \in 1..Len(kept) |-> Strip(kept[i])]

\* _blocks_to_html for a page whose text blocks hold one body-size span per
\* line of the page text: each line becomes line_text = text + " ", kept as
\* <p>line_text.strip()</p> when not empty; with no part at all the fallback
\* splits the page text into paragraphs.  The result is the list html_parts.
blocks_to_html(text) ==
  LET lines == SplitLines(text, <<>>)
      html_parts == Paragraphs([i \in 1..Len(lines) |-> lines[i] \o <<" ">>])
  IN IF html_parts # <<>> THEN html_parts
     ELSE Paragraphs(SplitParas(text, <<>>))

RECURSIVE Join(_)
\* "\n".join(html_parts)
Join(parts) ==
  IF parts = <<>> THEN <<>>
  ELSE IF Len(parts) = 1 THEN parts[1]
       ELSE parts[1] \o <<"\n">> \o Join(Tail(parts))

\* BeautifulSoup(html, 'lxml').get_text() of "<p>..</p>\n<p>..</p>"
html_get_text(html_parts) == Join(html_parts)

\* ------------------------------------------------- rapidfuzz fuzz.ratio
\* fuzz.ratio(a, b) = 100 * 2 * LCS(a, b) / (len(a) + len(b)), the normalized
\* Indel similarity.  One row of the LCS table from the previous one:
RECURSIVE BuildRow(_, _, _, _)
BuildRow(prev, c, b, acc) ==
  IF Len(acc) = Len(b) + 1 THEN acc
  ELSE LET j == Len(acc)
       IN BuildRow(prev, c, b,
                   Append(acc, IF b[j] = c THEN prev[j] + 1
                               ELSE Max(prev[j + 1], acc[j])))

RECURSIVE LcsRows(_, _, _, _)
LcsRows(a, b, i, prev) ==
  IF i > Len(a) THEN prev[Len(b) + 1]
  ELSE LcsRows(a, b, i + 1, BuildRow(prev, a[i], b, <<0>>))

LcsLength(a, b) == LcsRows(a, b, 1, [j \in 1..(Len(b) + 1) |-> 0])

\* the texts a document can put before are_similar, and the LCS of each pair,
\* computed once
KnownTexts == DirectTexts \cup {html_get_text(blocks_to_html(t)) : t \in PageTexts}

LcsTable == [p \in KnownTexts \X KnownTexts |-> LcsLength(p[1], p[2])]

LCS(a, b) ==
  IF a \in KnownTexts /\ b \in KnownTexts THEN LcsTable[<<a, b>>]
  ELSE LcsLength(a, b)

\* ratio >= threshold, as an exact comparison of the two rationals
RatioAtLeast(a, b, threshold) ==
  IF Len(a) + Len(b) = 0 THEN 100 >= threshold
  ELSE 200 * LCS(a, b) >= threshold * (Len(a) + Len(b))

are_similar(text1, text2, threshold) ==
  IF text1 = <<>> \/ text2 = <<>> THEN FALSE
  ELSE RatioAtLeast(text1, text2, threshold)

\* ------------------------------------------------------------------ state
VARIABLES
  pc,                  \* where main / process / deduplicate_chapters stands
  caller,              \* "process" or "direct": who called deduplicate_chapters
  have_arg,            \* len(sys.argv) >= 2
  file_exists,         \* os.path.exists(input_file)
  input_ext,           \* Path(input_path).suffix.lower()
  items,               \* the document: book.get_items() or the pages of doc
  idx,                 \* next item / page of the extraction loop
  chapters,            \* the chapter list built by extraction, then the argument
  removed_blanks,      \* self.removed_blanks
  removed_duplicates,  \* self.removed_duplicates
  log,                 \* self.log
  di,                  \* next chapter of the loop of deduplicate_chapters
  unique_chapters,     \* local of deduplicate_chapters
  seen_hashes,         \* local of deduplicate_chapters
  seen_texts,          \* local of deduplicate_chapters
  ret,                 \* what deduplicate_chapters returned last
  hashed,              \* texts compute_text_hash was applied to (history)
  compared,            \* <<text, seen_text>> pairs given to are_similar (history)
  calls,               \* completed invocations of deduplicate_chapters (history)
  out_dir,             \* os.makedirs(self.output_dir) has run
  out_epub,            \* epub.write_epub has run
  out_report,          \* normalization-report.txt has been written
  exit_status,         \* the process's exit status, -1 while it runs
  text_in,             \* argument of a lone is_blank_page call
  blank_out            \* its result, "none" before the call

vars == <<pc, caller, have_arg, file_exists, input_ext, items, idx, chapters,
          removed_blanks, removed_duplicates, log, di, unique_chapters,
          seen_hashes, seen_texts, ret, hashed, compared, calls, out_dir,
          out_epub, out_report, exit_status, text_in, blank_out>>

dedup_locals == <<di, unique_chapters, seen_hashes, seen_texts>>
outputs == <<out_dir, out_epub, out_report, exit_status>>
inputs == <<have_arg, file_exists, input_ext, items>>
lone == <<text_in, blank_out>>

Extensions == {".pdf", ".epub", ".txt"}

\* ---------------------------------------------- deduplicate_chapters, loop
\* index of the first seen_text the loop finds similar to text, 0 when none
\* faulty variant: only the most recent survivor is compared
FirstSimilarLastOnly(text, texts) ==
  IF texts # <<>> /\ are_similar(text, texts[Len(texts)], SimilarityThreshold)
  THEN Len(texts) ELSE 0

FirstSimilar(text, texts) ==
  LET hits == {k \in 1..Len(texts) : are_similar(text, texts[k], SimilarityThreshold)}
  IN IF hits = {} THEN 0 ELSE CHOOSE k \in hits : \A m \in hits : k <= m

\* the seen_texts the loop reaches: up to the first match, all when there is none
Scanned(text, texts) ==
  LET k == FirstSimilar(text, texts)
  IN IF k = 0 THEN 1..Len(texts) ELSE 1..k

\* One iteration of the for loop over chapters, on the locals and counters
\* st = [unique_chapters, seen_hashes, seen_texts, removed_duplicates];
\* the result adds the outcome for the chapter (removed by "hash", removed by
\* "similarity" or "kept") and the texts hashed and compared.
\* faulty variant: no hash check
DedupIterNoHash(st, chapter) ==
  LET text == chapter.text
      text_hash == compute_text_hash(text)
  IN IF FirstSimilar(text, st.seen_texts) # 0
     THEN [st EXCEPT !.removed_duplicates = @ + 1] @@
          [outcome |-> "similarity", hashed |-> {text},
           compared |-> {<<text, st.seen_texts[k]>> : k \in Scanned(text, st.seen_texts)}]
     ELSE [st EXCEPT !.seen_hashes = @ \cup {text_hash},
                     !.seen_texts = Append(@, text),
                     !.unique_chapters = Append(@, chapter)] @@
          [outcome |-> "kept", hashed |-> {text},
           compared |-> {<<text, st.seen_texts[k]>> : k \in Scanned(text, st.seen_texts)}]

\* faulty variant: a kept chapter is put first
DedupIterPrepend(st, chapter) ==
  LET text == chapter.text
      text_hash == compute_text_hash(text)
  IN IF text_hash \in st.seen_hashes
     THEN [st EXCEPT !.removed_duplicates = @ + 1] @@
          [outcome |-> "hash", hashed |-> {text}, compared |-> {}]
     ELSE IF FirstSimilar(text, st.seen_texts) # 0
     THEN [st EXCEPT !.removed_duplicates = @ + 1] @@
          [outcome |-> "similarity", hashed |-> {text},
           compared |-> {<<text, st.seen_texts[k]>> : k \in Scanned(text, st.seen_texts)}]
     ELSE [st EXCEPT !.seen_hashes = @ \cup {text_hash},
                     !.seen_texts = Append(@, text),
                     !.unique_chapters = <<chapter>> \o @] @@
          [outcome |-> "kept", hashed |-> {text},
           compared |-> {<<text, st.seen_texts[k]>> : k \in Scanned(text, st.seen_texts)}]

\* faulty variant: a similarity duplicate is not counted
DedupIterNoCount(st, chapter) ==
  LET text == chapter.text
      text_hash == compute_text_hash(text)
  IN IF text_hash \in st.seen_hashes
     THEN [st EXCEPT !.removed_duplicates = @ + 1] @@
          [outcome |-> "hash", hashed |-> {text}, compared |-> {}]
     ELSE IF FirstSimilar(text, st.seen_texts) # 0
     THEN st @@
          [outcome |-> "similarity", hashed |-> {text},
           compared |-> {<<text, st.seen_texts[k]>> : k \in Scanned(text, st.seen_texts)}]
     ELSE [st EXCEPT !.seen_hashes = @ \cup {text_hash},
                     !.seen_texts = Append(@, text),
                     !.unique_chapters = Append(@, chapter)] @@
          [outcome |-> "kept", hashed |-> {text},
           compared |-> {<<text, st.seen_texts[k]>> : k \in Scanned(text, st.seen_texts)}]

\* faulty variant: the text of a hash duplicate is remembered
DedupIterTextsAlways(st, chapter) ==
  LET text == chapter.text
      text_hash == compute_text_hash(text)
  IN IF text_hash \in st.seen_hashes
     THEN [st EXCEPT !.removed_duplicates = @ + 1,
                     !.seen_texts = Append(@, text)] @@
          [outcome |-> "hash", hashed |-> {text}, compared |-> {}]
     ELSE IF FirstSimilar(text, st.seen_texts) # 0
     THEN [st EXCEPT !.removed_duplicates = @ + 1] @@
          [outcome |-> "similarity", hashed |-> {text},
           compared |-> {<<text, st.seen_texts[k]>> : k \in Scanned(text, st.seen_texts)}]
     ELSE [st EXCEPT !.seen_hashes = @ \cup {text_hash},
                     !.seen_texts = Append(@, text),
                     !.unique_chapters = Append(@, chapter)] @@
          [outcome |-> "kept", hashed |-> {text},
           compared |-> {<<text, st.seen_texts[k]>> : k \in Scanned(text, st.seen_texts)}]

\* the iteration as the code has it
DedupIter(st, chapter) ==
  LET text == chapter.text
      text_hash == compute_text_hash(text)
  IN IF text_hash \in st.seen_hashes
     THEN [st EXCEPT !.removed_duplicates = @ + 1] @@
          [outcome |-> "hash", hashed |-> {text}, compared |-> {}]
     ELSE IF FirstSimilar(text, st.seen_texts) # 0
     THEN [st EXCEPT !.removed_duplicates = @ + 1] @@
          [outcome |-> "similarity", hashed |-> {text},
           compared |-> {<<text, st.seen_texts[k]>> : k \in Scanned(text, st.seen_texts)}]
     ELSE [st EXCEPT !.seen_hashes = @ \cup {text_hash},
                     !.seen_texts = Append(@, text),
                     !.unique_chapters = Append(@, chapter)] @@
          [outcome |-> "kept", hashed |-> {text},
           compared |-> {<<text, st.seen_texts[k]>> : k \in Scanned(text, st.seen_texts)}]

\* -------------------------------------------------------------- main, process
\* EPUBNormalizer.__init__ followed by the start of main
Fresh ==
  /\ removed_blanks = 0
  /\ removed_duplicates = 0
  /\ log = <<>>

NoDedupYet ==
  /\ di = 0
  /\ unique_chapters = <<>>
  /\ seen_hashes = {}
  /\ seen_texts = <<>>
  /\ ret = <<>>
  /\ hashed = {}
  /\ compared = {}
  /\ calls = <<>>

NoOutput ==
  /\ out_dir = FALSE
  /\ out_epub = FALSE
  /\ out_report = FALSE
  /\ exit_status = -1

InitMain ==
  /\ pc = "main"
  /\ caller = "process"
  /\ have_arg \in BOOLEAN
  /\ file_exists \in BOOLEAN
  /\ input_ext \in Extensions
  /\ items \in IF ~(have_arg /\ file_exists) THEN {<<>>}
               ELSE IF input_ext = ".epub" THEN SeqsUpTo(EpubItems, MaxUnits)
               ELSE IF input_ext = ".pdf" THEN SeqsUpTo(PdfPages, MaxUnits)
               ELSE {<<>>}
  /\ idx = 1
  /\ chapters = <<>>
  /\ Fresh
  /\ NoDedupYet
  /\ NoOutput
  /\ text_in = <<>>
  /\ blank_out = "none"

\* chapters as a caller of deduplicate_chapters builds them: one 3-tuple per
\* text, told apart by its title
Titled(texts) == [i \in 1..Len(texts) |-> [title |-> i, text |-> texts[i]]]

\* a fresh EPUBNormalizer whose deduplicate_chapters is called directly
InitDirect ==
  /\ pc = "dedup_call"
  /\ caller = "direct"
  /\ have_arg = TRUE
  /\ file_exists = TRUE
  /\ input_ext = ".epub"
  /\ items = <<>>
  /\ idx = 1
  /\ chapters \in {Titled(t) : t \in SeqsUpTo(DirectTexts, MaxChapters)}
  /\ Fresh
  /\ NoDedupYet
  /\ NoOutput
  /\ text_in = <<>>
  /\ blank_out = "none"

Init == InitMain \/ InitDirect

\* main up to the call of process: the usage and file-not-found exits
main_check ==
  /\ pc = "main"
  /\ IF ~have_arg \/ ~file_exists
     THEN pc' = "exit" /\ exit_status' = 1
     ELSE pc' = "process" /\ UNCHANGED exit_status
  /\ UNCHANGED <<caller, inputs, idx, chapters, removed_blanks, removed_duplicates,
                 log, dedup_locals, ret, hashed, compared, calls, out_dir, out_epub,
                 out_report, lone>>

\* the branch of process on the extension
\* faulty variant: any other extension is read as a container
RouteNoReject(ext) ==
  IF ext = ".pdf" THEN "extract_pdf" ELSE "extract_epub"

Route(ext) ==
  IF ext = ".pdf" THEN "extract_pdf"
  ELSE IF ext = ".epub" THEN "extract_epub"
  ELSE "raised"

process_start ==
  /\ pc = "process"
  /\ pc' = Route(input_ext)
  /\ log' = log \o <<"Starting normalization">> \o
            (IF Route(input_ext) = "extract_pdf" THEN <<"Converting PDF">>
             ELSE IF Route(input_ext) = "extract_epub" THEN <<"Reading EPUB">>
             ELSE <<>>)
  /\ idx' = 1
  /\ chapters' = <<>>
  /\ UNCHANGED <<caller, inputs, removed_blanks, removed_duplicates, dedup_locals,
                 ret, hashed, compared, calls, outputs, lone>>

\* one page of the loop of pdf_to_html_chapters
pdf_page ==
  /\ pc = "extract_pdf"
  /\ idx <= Len(items)
  /\ LET text == items[idx].text
     IN IF is_blank_page(text)
        THEN removed_blanks' = removed_blanks + 1 /\ UNCHANGED chapters
        ELSE /\ chapters' = Append(chapters, [title |-> idx, html |-> blocks_to_html(text)])
             /\ UNCHANGED removed_blanks
  /\ idx' = idx + 1
  /\ UNCHANGED <<pc, caller, inputs, removed_duplicates, log, dedup_locals, ret,
                 hashed, compared, calls, outputs, lone>>

\* the end of pdf_to_html_chapters and the conversion to 3-tuples in process
pdf_done ==
  /\ pc = "extract_pdf"
  /\ idx > Len(items)
  /\ log' = Append(log, "Extracted pages from PDF")
  /\ chapters' = [i \in 1..Len(chapters) |->
                    [title |-> chapters[i].title, text |-> html_get_text(chapters[i].html)]]
  /\ pc' = "dedup_call"
  /\ UNCHANGED <<caller, inputs, idx, removed_blanks, removed_duplicates, dedup_locals,
                 ret, hashed, compared, calls, outputs, lone>>

\* one item of the loop of extract_epub_chapters
\* faulty variant: no blank check
epub_item_nofilter ==
  /\ pc = "extract_epub"
  /\ idx <= Len(items)
  /\ LET item == items[idx]
     IN IF item.type # XhtmlType
        THEN UNCHANGED <<removed_blanks, chapters>>
        ELSE /\ chapters' = Append(chapters, [title |-> idx, text |-> item.text])
             /\ UNCHANGED removed_blanks
  /\ idx' = idx + 1
  /\ UNCHANGED <<pc, caller, inputs, removed_duplicates, log, dedup_locals, ret,
                 hashed, compared, calls, outputs, lone>>

\* the item loop as the code has it
epub_item ==
  /\ pc = "extract_epub"
  /\ idx <= Len(items)
  /\ LET item == items[idx]
     IN IF item.type # XhtmlType
        THEN UNCHANGED <<removed_blanks, chapters>>
        ELSE IF is_blank_page(item.text)
        THEN removed_blanks' = removed_blanks + 1 /\ UNCHANGED chapters
        ELSE /\ chapters' = Append(chapters, [title |-> idx, text |-> item.text])
             /\ UNCHANGED removed_blanks
  /\ idx' = idx + 1
  /\ UNCHANGED <<pc, caller, inputs, removed_duplicates, log, dedup_locals, ret,
                 hashed, compared, calls, outputs, lone>>

epub_done ==
  /\ pc = "extract_epub"
  /\ idx > Len(items)
  /\ log' = Append(log, "Extracted chapters from EPUB")
  /\ pc' = "dedup_call"
  /\ UNCHANGED <<caller, inputs, idx, chapters, removed_blanks, removed_duplicates,
                 dedup_locals, ret, hashed, compared, calls, outputs, lone>>

\* where control goes when deduplicate_chapters returns
AfterDedup == IF caller = "process" THEN "metadata" ELSE "returned"

\* entry of deduplicate_chapters: the empty-list return, else the locals
\* faulty variant: seen_hashes and seen_texts outlive the invocation
dedup_call_keep_seen ==
  /\ pc = "dedup_call"
  /\ IF chapters = <<>>
     THEN /\ ret' = chapters
          /\ calls' = Append(calls, [arg |-> chapters, dups0 |-> removed_duplicates,
                                     done |-> TRUE, outcomes |-> <<>>,
                                     ret |-> chapters, dups1 |-> removed_duplicates])
          /\ pc' = AfterDedup
          /\ UNCHANGED dedup_locals
     ELSE /\ unique_chapters' = <<>>
          /\ UNCHANGED <<seen_hashes, seen_texts>>
          /\ di' = 1
          /\ calls' = Append(calls, [arg |-> chapters, dups0 |-> removed_duplicates,
                                     done |-> FALSE, outcomes |-> <<>>,
                                     ret |-> <<>>, dups1 |-> removed_duplicates])
          /\ pc' = "dedup_loop"
          /\ UNCHANGED ret
  /\ UNCHANGED <<caller, inputs, idx, chapters, removed_blanks, removed_duplicates,
                 log, hashed, compared, outputs, lone>>

\* entry of deduplicate_chapters as the code has it
dedup_call ==
  /\ pc = "dedup_call"
  /\ IF chapters = <<>>
     THEN /\ ret' = chapters
          /\ calls' = Append(calls, [arg |-> chapters, dups0 |-> removed_duplicates,
                                     done |-> TRUE, outcomes |-> <<>>,
                                     ret |-> chapters, dups1 |-> removed_duplicates])
          /\ pc' = AfterDedup
          /\ UNCHANGED dedup_locals
     ELSE /\ unique_chapters' = <<>>
          /\ seen_hashes' = {}
          /\ seen_texts' = <<>>
          /\ di' = 1
          /\ calls' = Append(calls, [arg |-> chapters, dups0 |-> removed_duplicates,
                                     done |-> FALSE, outcomes |-> <<>>,
                                     ret |-> <<>>, dups1 |-> removed_duplicates])
          /\ pc' = "dedup_loop"
          /\ UNCHANGED ret
  /\ UNCHANGED <<caller, inputs, idx, chapters, removed_blanks, removed_duplicates,
                 log, hashed, compared, outputs, lone>>

\* one iteration of the loop of deduplicate_chapters
dedup_step ==
  /\ pc = "dedup_loop"
  /\ di <= Len(chapters)
  /\ \E r \in {DedupIter([unique_chapters |-> unique_chapters,
                            seen_hashes |-> seen_hashes,
                            seen_texts |-> seen_texts,
                            removed_duplicates |-> removed_duplicates],
                           chapters[di])} :
        /\ unique_chapters' = r.unique_chapters
        /\ seen_hashes' = r.seen_hashes
        /\ seen_texts' = r.seen_texts
        /\ removed_duplicates' = r.removed_duplicates
        /\ log' = IF r.outcome = "kept" THEN log
                  ELSE Append(log, <<"Removed duplicate", r.outcome, chapters[di].title>>)
        /\ hashed' = hashed \cup r.hashed
        /\ compared' = compared \cup r.compared
        /\ calls' = [calls EXCEPT ![Len(calls)].outcomes = Append(@, r.outcome)]
  /\ di' = di + 1
  /\ UNCHANGED <<pc, caller, inputs, idx, chapters, removed_blanks, ret, outputs, lone>>

\* the end of deduplicate_chapters; process assigns the result to chapters
dedup_return ==
  /\ pc = "dedup_loop"
  /\ di > Len(chapters)
  /\ log' = Append(log, <<"Kept unique chapters", Len(unique_chapters)>>)
  /\ ret' = unique_chapters
  /\ calls' = [calls EXCEPT ![Len(calls)] =
                 [@ EXCEPT !.done = TRUE, !.ret = unique_chapters,
                           !.dups1 = removed_duplicates]]
  /\ pc' = AfterDedup
  /\ chapters' = IF caller = "process" THEN unique_chapters ELSE chapters
  /\ UNCHANGED <<caller, inputs, idx, removed_blanks, removed_duplicates,
                 dedup_locals, hashed, compared, outputs, lone>>

\* extract_metadata and build_epub
build ==
  /\ pc = "metadata"
  /\ log' = Append(log, "Metadata")
  /\ pc' = "write"
  /\ UNCHANGED <<caller, inputs, idx, chapters, removed_blanks, removed_duplicates,
                 dedup_locals, ret, hashed, compared, calls, outputs, lone>>

\* os.makedirs and epub.write_epub
write ==
  /\ pc = "write"
  /\ out_dir' = TRUE
  /\ out_epub' = TRUE
  /\ log' = Append(log, "Created EPUB")
  /\ pc' = "report"
  /\ UNCHANGED <<caller, inputs, idx, chapters, removed_blanks, removed_duplicates,
                 dedup_locals, ret, hashed, compared, calls, out_report, exit_status,
                 lone>>

generate_report ==
  /\ pc = "report"
  /\ out_report' = TRUE
  /\ pc' = "success"
  /\ UNCHANGED <<caller, inputs, idx, chapters, removed_blanks, removed_duplicates,
                 log, dedup_locals, ret, hashed, compared, calls, out_dir, out_epub,
                 exit_status, lone>>

\* main after process returned
main_success ==
  /\ pc = "success"
  /\ exit_status' = 0
  /\ pc' = "exit"
  /\ UNCHANGED <<caller, inputs, idx, chapters, removed_blanks, removed_duplicates,
                 log, dedup_locals, ret, hashed, compared, calls, out_dir, out_epub,
                 out_report, lone>>

\* main's except clause
main_except ==
  /\ pc = "raised"
  /\ exit_status' = 1
  /\ pc' = "exit"
  /\ UNCHANGED <<caller, inputs, idx, chapters, removed_blanks, removed_duplicates,
                 log, dedup_locals, ret, hashed, compared, calls, out_dir, out_epub,
                 out_report, lone>>

\* the direct caller passes the result to deduplicate_chapters again
reinvoke ==
  /\ pc = "returned"
  /\ Len(calls) < MaxCalls
  /\ chapters' = ret
  /\ pc' = "dedup_call"
  /\ UNCHANGED <<caller, inputs, idx, removed_blanks, removed_duplicates, log,
                 dedup_locals, ret, hashed, compared, calls, outputs, lone>>

\* a lone call of is_blank_page
InitBlank ==
  /\ pc = "blank_call"
  /\ caller = "direct"
  /\ have_arg = TRUE
  /\ file_exists = TRUE
  /\ input_ext = ".epub"
  /\ items = <<>>
  /\ idx = 1
  /\ chapters = <<>>
  /\ Fresh
  /\ NoDedupYet
  /\ NoOutput
  /\ text_in \in SeqsUpTo({"a", " "}, MaxTextLen)
  /\ blank_out = "none"

blank_call ==
  /\ pc = "blank_call"
  /\ blank_out' = is_blank_page(text_in)
  /\ pc' = "blank_done"
  /\ UNCHANGED <<caller, inputs, idx, chapters, removed_blanks, removed_duplicates,
                 log, dedup_locals, ret, hashed, compared, calls, outputs, text_in>>

NextBlank == blank_call

SpecBlank == InitBlank /\ [][NextBlank]_vars

Next ==
  \/ main_check
  \/ process_start
  \/ pdf_page
  \/ pdf_done
  \/ epub_item
  \/ epub_done
  \/ dedup_call
  \/ dedup_step
  \/ dedup_return
  \/ reinvoke
  \/ build
  \/ write
  \/ generate_report
  \/ main_success
  \/ main_except

Spec == Init /\ [][Next]_vars

\* ================================================================ claims
InSeq(x, seq) == \E i \in 1..Len(seq) : seq[i] = x

RECURSIVE IsSubsequence(_, _)
IsSubsequence(sub, seq) ==
  IF sub = <<>> THEN TRUE
  ELSE IF seq = <<>> THEN FALSE
  ELSE IF Head(sub) = Head(seq) THEN IsSubsequence(Tail(sub), Tail(seq))
       ELSE IsSubsequence(sub, Tail(seq))

\* deduplicate_chapters has just returned; Last is that invocation's record
JustReturned == pc \in {"returned", "metadata"}

Last == calls[Len(calls)]

\* blank by the specification's definition
SpecBlankText(text) == Len(RemoveWs(text)) < BlankThreshold

\* the content units of the document: XHTML items, or pages
UnitIndexes == {i \in 1..Len(items) : items[i].type = XhtmlType}

Texts(units) == [i \in 1..Len(units) |-> units[i].text]

\* C1 (as stated): for every invocation of deduplicate_chapters,
\* removed_blanks + removed_duplicates + len(returned list) == len(chapters).
C1_Original ==
  JustReturned =>
    removed_blanks + removed_duplicates + Len(Last.ret) = Len(Last.arg)

\* C1 (amended): an invocation of deduplicate_chapters adds to removed_duplicates
\* exactly len(chapters) - len(returned list) and leaves removed_blanks alone;
\* over a pipeline run removed_blanks + removed_duplicates + len(survivors)
\* equals the number of content units of the document, the blank ones having
\* been dropped and counted by the extractor before deduplicate_chapters.
C1_Amended ==
  /\ JustReturned =>
       (Last.dups1 - Last.dups0) + Len(Last.ret) = Len(Last.arg)
  /\ caller = "direct" => removed_blanks = 0
  /\ (caller = "process" /\ calls # <<>> /\ Last.done) =>
       removed_blanks + removed_duplicates + Len(ret) = Cardinality(UnitIndexes)

C1_Witness ==
  /\ caller = "process"
  /\ pc = "exit"
  /\ exit_status = 0
  /\ removed_blanks >= 1
  /\ removed_duplicates >= 1
  /\ Len(ret) >= 2

\* C2: the list deduplicate_chapters returns is a subsequence of its argument.
C2_Subsequence ==
  JustReturned => IsSubsequence(Last.ret, Last.arg)

C2_Witness ==
  /\ JustReturned
  /\ Len(Last.arg) = 4
  /\ Last.ret = <<Last.arg[1], Last.arg[3], Last.arg[4]>>

\* C3 (as stated): in deduplicate_chapters every input unit whose text without
\* whitespace is shorter than 10 is removed (never a survivor) and is never
\* fingerprinted.
C3_Original ==
  JustReturned =>
    \A i \in 1..Len(Last.arg) :
      SpecBlankText(Last.arg[i].text) =>
        /\ ~InSeq(Last.arg[i], Last.ret)
        /\ Last.arg[i].text \notin hashed

\* C3 (amended): the blank filter is the extractor's, not deduplicate_chapters'.
\* In a pipeline run every content unit of the document whose text without
\* whitespace is shorter than 10 is dropped and counted in removed_blanks during
\* extraction and never reaches deduplicate_chapters, so on the EPUB path no
\* blank text is fingerprinted or compared; the document [A, B(whitespace),
\* C(= A), D(unrelated)] ends with removed_blanks = 1, removed_duplicates = 1
\* and survivors [A, D].  deduplicate_chapters itself counts no blank, and
\* fingerprints a blank unit passed to it like any other unit.
C3_Amended ==
  /\ caller = "process" =>
       /\ pc \in {"extract_pdf", "extract_epub", "dedup_call"} =>
            removed_blanks =
              Cardinality({i \in UnitIndexes : i < idx /\ SpecBlankText(items[i].text)})
       /\ JustReturned =>
            \A i \in 1..Len(Last.arg) : ~SpecBlankText(items[Last.arg[i].title].text)
       /\ (JustReturned /\ input_ext = ".epub") =>
            /\ \A t \in hashed : ~SpecBlankText(t)
            /\ \A p \in compared : ~SpecBlankText(p[1]) /\ ~SpecBlankText(p[2])
       /\ (input_ext = ".epub" /\ pc = "exit" /\ Texts(items) = <<TA, TB, TA, TD>>) =>
            /\ removed_blanks = 1
            /\ removed_duplicates = 1
            /\ ret = <<[title |-> 1, text |-> TA], [title |-> 4, text |-> TD]>>
  /\ caller = "direct" =>
       /\ removed_blanks = 0
       /\ JustReturned => \A i \in 1..Len(Last.arg) : Last.arg[i].text \in hashed

C3_Witness ==
  /\ caller = "process"
  /\ input_ext = ".epub"
  /\ pc = "exit"
  /\ exit_status = 0
  /\ Texts(items) = <<TA, TB, TA, TD>>
  /\ \A i \in 1..Len(items) : items[i].type = XhtmlType
  /\ Texts(ret) = <<TA, TD>>

\* C4 (as stated): of two units with identical text deduplicate_chapters keeps
\* exactly one.
\* (Checked where the claim is at its strongest: the two units are not blank
\* and no third unit has their text.)
C4_Original ==
  JustReturned =>
    \A i, j \in 1..Len(Last.arg) :
      (/\ i < j
       /\ Last.arg[i].text = Last.arg[j].text
       /\ ~SpecBlankText(Last.arg[i].text)
       /\ \A m \in 1..Len(Last.arg) : Last.arg[m].text = Last.arg[i].text => m \in {i, j}) =>
        (InSeq(Last.arg[i], Last.ret) # InSeq(Last.arg[j], Last.ret))

\* C4 (amended): of two units with identical text the later one is never kept,
\* and the earlier one is kept unless it is itself a duplicate (same
\* fingerprint, or similar at 95.0) of a unit kept before it, in which case
\* neither is kept.
C4_Amended ==
  JustReturned =>
    \A i, j \in 1..Len(Last.arg) :
      (i < j /\ Last.arg[i].text = Last.arg[j].text) =>
        /\ ~InSeq(Last.arg[j], Last.ret)
        /\ InSeq(Last.arg[i], Last.ret) <=>
             ~\E m \in 1..(i - 1) :
                /\ InSeq(Last.arg[m], Last.ret)
                /\ \/ compute_text_hash(Last.arg[m].text) = compute_text_hash(Last.arg[i].text)
                   \/ are_similar(Last.arg[i].text, Last.arg[m].text, SimilarityThreshold)

C4_Witness ==
  /\ JustReturned
  /\ caller = "process"
  /\ \E i, j \in 1..Len(Last.arg) :
       /\ i < j
       /\ Last.arg[i].text = Last.arg[j].text
       /\ ~InSeq(Last.arg[i], Last.ret)
       /\ ~InSeq(Last.arg[j], Last.ret)
       /\ Last.outcomes[i] = "similarity"
       /\ Last.outcomes[j] = "similarity"

\* C5: with an extension that is neither .pdf nor .epub, process raises before
\* any extraction, deduplication or writing: nothing is extracted, no output
\* directory, container or report is created, and the process exits with 1.
C5_NoPartialOutput ==
  (caller = "process" /\ input_ext \notin {".pdf", ".epub"}) =>
    /\ pc \in {"main", "process", "raised", "exit"}
    /\ chapters = <<>>
    /\ removed_blanks = 0
    /\ calls = <<>>
    /\ hashed = {}
    /\ ~out_dir
    /\ ~out_epub
    /\ ~out_report
    /\ exit_status # 0
    /\ pc = "exit" => exit_status = 1

C5_Witness ==
  /\ caller = "process"
  /\ input_ext = ".txt"
  /\ have_arg
  /\ file_exists
  /\ pc = "exit"
  /\ exit_status = 1
  /\ log = <<"Starting normalization">>

\* C6: is_blank_page(text) is true exactly when text without whitespace has
\* fewer than 10 characters; the check of the stripped length adds nothing.
C6_BlankIff ==
  pc = "blank_done" =>
    /\ blank_out = (Len(RemoveWs(text_in)) < BlankThreshold)
    /\ Len(RemoveWs(text_in)) >= BlankThreshold => Len(Strip(text_in)) >= BlankThreshold

C6_Witness ==
  /\ pc = "blank_done"
  /\ blank_out = TRUE
  /\ Len(Strip(text_in)) >= BlankThreshold

\* the specification's NormalizedText: lower-cased, whitespace runs collapsed
\* to one space, trimmed
NormalizedText(text) == Strip(CollapseWs(Lower(text)))

\* two units whose texts differ, but only in whitespace style or letter case
SameFingerprint(a, b) ==
  a.text # b.text /\ NormalizedText(a.text) = NormalizedText(b.text)

\* C7 (as stated): a unit whose text differs only in whitespace style or letter
\* case from the text of an earlier unit is always removed by the hash path,
\* whether that earlier unit was kept or removed as a fuzzy duplicate.
\* (Checked on units that are not blank.)
C7_Original ==
  JustReturned =>
    \A i, j \in 1..Len(Last.arg) :
      (/\ i < j
       /\ SameFingerprint(Last.arg[i], Last.arg[j])
       /\ ~SpecBlankText(Last.arg[i].text)) =>
        Last.outcomes[j] = "hash"

\* C7 (amended): a unit whose text differs only in whitespace style or letter
\* case from the text of an earlier unit that was kept is always removed, by
\* the hash path; it is removed by the hash path only if some earlier kept unit
\* has its fingerprint, so when the earlier unit was removed as a fuzzy
\* duplicate the later one goes through the similarity scan and may be kept.
C7_Amended ==
  JustReturned =>
    \A i, j \in 1..Len(Last.arg) :
      (i < j /\ SameFingerprint(Last.arg[i], Last.arg[j])) =>
        /\ Last.outcomes[i] = "kept" => Last.outcomes[j] = "hash"
        /\ Last.outcomes[j] = "hash" <=>
             \E m \in 1..(j - 1) :
               /\ Last.outcomes[m] = "kept"
               /\ NormalizedText(Last.arg[m].text) = NormalizedText(Last.arg[j].text)

C7_Witness ==
  /\ JustReturned
  /\ caller = "process"
  /\ Last.outcomes = <<"kept", "similarity", "kept">>
  /\ SameFingerprint(Last.arg[2], Last.arg[3])

\* C8: while deduplicate_chapters runs, seen_hashes, seen_texts and
\* unique_chapters have the same size, the number of units kept so far.
C8_SameLength ==
  /\ Cardinality(seen_hashes) = Len(seen_texts)
  /\ Len(seen_texts) = Len(unique_chapters)
  /\ pc = "dedup_loop" =>
       /\ Len(Last.outcomes) = di - 1
       /\ Len(unique_chapters) =
            Cardinality({i \in 1..(di - 1) : Last.outcomes[i] = "kept"})

C8_Witness ==
  /\ pc = "dedup_loop"
  /\ di = 5
  /\ Last.outcomes = <<"kept", "hash", "kept", "similarity">>
  /\ Len(seen_texts) = 2

\* C9: in the returned list no two survivors share a fingerprint, and every
\* survivor was compared with, and found not similar to, each survivor before it.
C9_PairwiseDistinct ==
  JustReturned =>
    \A i, j \in 1..Len(Last.ret) :
      i < j =>
        /\ compute_text_hash(Last.ret[i].text) # compute_text_hash(Last.ret[j].text)
        /\ ~are_similar(Last.ret[j].text, Last.ret[i].text, SimilarityThreshold)
        /\ <<Last.ret[j].text, Last.ret[i].text>> \in compared

C9_Witness ==
  /\ JustReturned
  /\ Len(Last.ret) = 3
  /\ Last.outcomes = <<"kept", "kept", "similarity", "kept">>
  /\ ~are_similar(Last.arg[3].text, Last.ret[2].text, SimilarityThreshold)

\* C10: deduplicate_chapters applied to its own result returns it unchanged and
\* removes nothing.
C10_Idempotent ==
  (JustReturned /\ Len(calls) >= 2 /\ Last.arg = calls[Len(calls) - 1].ret) =>
    /\ Last.ret = Last.arg
    /\ Last.dups1 = Last.dups0
    /\ \A i \in 1..Len(Last.outcomes) : Last.outcomes[i] = "kept"

C10_Witness ==
  /\ JustReturned
  /\ Len(calls) = 2
  /\ Last.arg = calls[1].ret
  /\ Len(calls[1].ret) >= 2
  /\ Len(calls[1].ret) < Len(calls[1].arg)

====
